---- MODULE Spec2Model ----
(***************************************************************************)
(* Model of opendut-cleo/src/commands/setup.rs: the `setup` command of    *)
(* CLEO.  SetupCli::execute either persists a certificate and a           *)
(* configuration document (persistent mode) or prints environment         *)
(* assignments (ephemeral mode); prepare_cleo_configuration builds the     *)
(* configuration document with toml_edit.                                  *)
(*                                                                         *)
(* A toml_edit document is modelled as a function from key paths           *)
(* (sequences of key strings) to nodes; a node is a table (with its style) *)
(* or a typed value.  Option<T> is modelled as a sequence of length 0 or 1.*)
(***************************************************************************)
EXTENDS Integers, Sequences, FiniteSets, TLC

\* ------------------------------------------------------------------ bounds
MaxScopes == 2
MaxBaseKeys == 3

\* ------------------------------------------------------- Option<T> helpers
NoneOpt == << >>
Some(v) == << v >>
\* Mutation: Option::unwrap_or_default in place of unwrap_or(443).
unwrap_or_default(opt, default) == IF opt = NoneOpt THEN 0 ELSE opt[1]
unwrap_or(opt, default) == IF opt = NoneOpt THEN default ELSE opt[1]

\* ------------------------------------------------------------------ inputs
\* Url::host_str() of the CARL URL: None for a URL without host.
Hosts == { NoneOpt, Some("carl") }
\* Url::port() of the CARL URL: None when the URL carries no port.
Ports == { NoneOpt, Some(1234) }
Certificates == { "caA" }
ScopeNames == { "a", "b" }

RECURSIVE SeqsUpTo(_, _)
SeqsUpTo(S, n) ==
    IF n = 0 THEN { << >> }
    ELSE LET shorter == SeqsUpTo(S, n - 1)
         IN  shorter \cup { Append(s, x) : s \in { t \in shorter : Len(t) = n - 1 }, x \in S }

\* ClientId, ClientSecret and the scopes wrap a string that .value() returns.
Wrapped(s) == [value |-> s]
Disabled == [tag |-> "Disabled"]
Enabled(issuer_url, client_id, client_secret, scopes) ==
    [tag |-> "Enabled", issuer_url |-> issuer_url, client_id |-> client_id,
     client_secret |-> client_secret, scopes |-> scopes]
AuthConfigs ==
    { Disabled } \cup
    { Enabled("https://auth:1234/", Wrapped("testClient"), Wrapped("secret"), sc) :
        sc \in SeqsUpTo({ Wrapped(n) : n \in ScopeNames }, MaxScopes) }

CleoSetups ==
    { [carl |-> [host_str |-> h, port |-> p], ca |-> c, auth_config |-> a] :
        h \in Hosts, p \in Ports, c \in Certificates, a \in AuthConfigs }

\* Paths handed to prepare_cleo_configuration; Path::to_str() is None for a
\* path that is not valid UTF-8.
NonUtf8Path == "<non-utf8 path>"
CaPaths == { "/test/path/ca.pem", NonUtf8Path }
to_str(path) == IF path = NonUtf8Path THEN NoneOpt ELSE Some(path)

\* --------------------------------------------------------- toml_edit nodes
table == [kind |-> "table", style |-> "std"]
InlineTable == [kind |-> "table", style |-> "inline"]
StrValue(s) == [kind |-> "str", s |-> s]
IntValue(i) == [kind |-> "int", i |-> i]
BoolValue(b) == [kind |-> "bool", b |-> b]

DocumentMut_new == [p \in {} |-> table]

IsPrefix(p, q) == Len(p) <= Len(q) /\ SubSeq(q, 1, Len(p)) = p
IsStrictPrefix(p, q) == Len(p) < Len(q) /\ IsPrefix(p, q)
Prefixes(p) == { SubSeq(p, 1, i) : i \in 1..(Len(p) - 1) }

\* Item::get / Table::get along a path: Some(item) when every key is present.
Get(doc, p) == IF p \in DOMAIN doc THEN Some(doc[p]) ELSE NoneOpt

\* The state threaded through the body of a function: a panic unwinds and
\* discards the document.
Running(doc) == [panicked |-> FALSE, doc |-> doc, message |-> ""]
Panic(message) == [panicked |-> TRUE, doc |-> DocumentMut_new, message |-> message]

\* IndexMut on an Item panics ("index not found") when an item on the way is
\* neither a table, an inline table nor absent.
IndexPanics(doc, p) == \E q \in Prefixes(p) : q \in DOMAIN doc /\ doc[q].kind # "table"

\* doc[k1][k2]...[kn] = item: an absent item on the way becomes an inline
\* table, the assigned item replaces whatever was at the path (its whole
\* subtree included).
Assign(st, p, item) ==
    IF st.panicked THEN st
    ELSE IF IndexPanics(st.doc, p) THEN Panic("index not found")
    ELSE LET kept == { q \in DOMAIN st.doc : ~IsStrictPrefix(p, q) }
             dom  == kept \cup Prefixes(p) \cup { p }
         IN  Running([q \in dom |->
                        IF q = p THEN item
                        ELSE IF q \in DOMAIN st.doc THEN st.doc[q]
                        ELSE InlineTable])

\* doc[..].as_table_mut().unwrap().set_dotted(true)
set_dotted(st, p) ==
    IF st.panicked THEN st
    ELSE IF ~(p \in DOMAIN st.doc /\ st.doc[p].kind = "table" /\ st.doc[p].style # "inline")
         THEN Panic("called Option::unwrap() on a None value")
    ELSE Running([st.doc EXCEPT ![p] = [kind |-> "table", style |-> "dotted"]])

\* ------------------------------------------- prepare_cleo_configuration
DefaultPort == 443
HostExpectation == "Host name should be defined in CARL URL."

\* Mutation: a separator after every element, the last one included.
RECURSIVE join_trailing(_, _)
join_trailing(strs, sep) ==
    IF Len(strs) = 0 THEN ""
    ELSE strs[1] \o sep \o join_trailing(Tail(strs), sep)

\* scopes.into_iter().map(|scope| scope.value()).collect::<Vec<_>>().join(",")
RECURSIVE join(_, _)
join(strs, sep) ==
    IF Len(strs) = 0 THEN ""
    ELSE IF Len(strs) = 1 THEN strs[1]
    ELSE strs[1] \o sep \o join(Tail(strs), sep)

ScopeValues(scopes) == [i \in 1..Len(scopes) |-> scopes[i].value]

\* Mutation: a URL without host yields the empty host name instead of a panic.
CarlHost_or_default(setup) ==
    [panicked |-> FALSE, message |-> "", value |-> unwrap_or(setup.carl.host_str, "")]
\* setup_string.carl.host_str().expect("Host name should be defined in CARL URL.")
CarlHost(setup) ==
    IF setup.carl.host_str = NoneOpt
    THEN [panicked |-> TRUE, message |-> HostExpectation, value |-> ""]
    ELSE [panicked |-> FALSE, message |-> "", value |-> setup.carl.host_str[1]]

\* Mutation: client id and client secret swapped.
OidcClientValues_swapped(auth) ==
    [id |-> auth.client_secret.value,
     secret |-> auth.client_id.value,
     issuer_url |-> auth.issuer_url,
     scopes |-> join(ScopeValues(auth.scopes), ",")]
\* The values taken from AuthConfig::Enabled.
OidcClientValues(auth) ==
    [id |-> auth.client_id.value,
     secret |-> auth.client_secret.value,
     issuer_url |-> auth.issuer_url,
     scopes |-> join(ScopeValues(auth.scopes), ",")]

\* The three existence checks that guard the creation of groups.
\* Mutation: the first check inverted.
CarlIsNone_inverted(doc) == Get(doc, <<"network", "carl">>) # NoneOpt
CarlIsNone(doc) == Get(doc, <<"network", "carl">>) = NoneOpt
OidcIsNone(doc) == Get(doc, <<"network", "oidc">>) = NoneOpt
ClientIsNone(doc) == Get(doc, <<"network", "oidc", "client">>) = NoneOpt

EnsureCarl(st) ==
    IF ~st.panicked /\ CarlIsNone(st.doc)
    THEN set_dotted(Assign(Assign(st, <<"network">>, table),
                           <<"network", "carl">>, table),
                    <<"network", "carl">>)
    ELSE st

EnsureOidcEnabled(st) ==
    IF ~st.panicked /\ OidcIsNone(st.doc)
    THEN LET a == Assign(st, <<"network", "oidc">>, table)
             b == Assign(a, <<"network", "tls">>, table)
             c == Assign(b, <<"network", "tls", "domain">>, table)
             d == set_dotted(c, <<"network", "tls", "domain">>)
             e == Assign(d, <<"network", "tls", "domain", "name">>, table)
         IN  set_dotted(e, <<"network", "tls", "domain", "name">>)
    ELSE st

\* Mutation: the Disabled arm creating the groups of the Enabled arm.
EnsureOidcDisabled_as_enabled(st) == EnsureOidcEnabled(st)
EnsureOidcDisabled(st) ==
    IF ~st.panicked /\ OidcIsNone(st.doc)
    THEN Assign(st, <<"network", "oidc">>, table)
    ELSE st

EnsureClient(st) ==
    IF ~st.panicked /\ ClientIsNone(st.doc)
    THEN LET a == Assign(st, <<"network", "oidc", "client">>, table)
             b == Assign(a, <<"network", "oidc", "client", "issuer">>, table)
         IN  set_dotted(b, <<"network", "oidc", "client", "issuer">>)
    ELSE st

\* The body of prepare_cleo_configuration applied to the document
\* new_settings.
merge(setup_string, cleo_ca_path, new_settings) ==
    IF CarlHost(setup_string).panicked THEN Panic(CarlHost(setup_string).message)
    ELSE
    LET carl_host == CarlHost(setup_string).value
        carl_port == unwrap_or(setup_string.carl.port, DefaultPort)
        s1 == EnsureCarl(Running(new_settings))
        s2 == Assign(s1, <<"network", "carl", "host">>, StrValue(carl_host))
        s3 == Assign(s2, <<"network", "carl", "port">>, IntValue(carl_port))
        auth == setup_string.auth_config
    IN  IF auth.tag = "Disabled"
        THEN Assign(EnsureOidcDisabled(s3), <<"network", "oidc", "enabled">>, BoolValue(FALSE))
        ELSE
        LET network_oidc_client_id == OidcClientValues(auth).id
            network_oidc_client_secret == OidcClientValues(auth).secret
            network_oidc_client_issuer_url == OidcClientValues(auth).issuer_url
            network_oidc_client_scopes == OidcClientValues(auth).scopes
            e1 == Assign(EnsureOidcEnabled(s3), <<"network", "oidc", "enabled">>, BoolValue(TRUE))
            e2 == IF e1.panicked THEN e1
                  ELSE IF to_str(cleo_ca_path) = NoneOpt
                  THEN Panic("called Option::unwrap() on a None value")
                  ELSE Assign(e1, <<"network", "tls", "ca">>, StrValue(to_str(cleo_ca_path)[1]))
            e3 == Assign(e2, <<"network", "tls", "domain", "name", "override">>, StrValue(carl_host))
            e4 == EnsureClient(e3)
            e5 == Assign(e4, <<"network", "oidc", "client", "id">>, StrValue(network_oidc_client_id))
            e6 == Assign(e5, <<"network", "oidc", "client", "secret">>, StrValue(network_oidc_client_secret))
            e7 == Assign(e6, <<"network", "oidc", "client", "scopes">>, StrValue(network_oidc_client_scopes))
        IN  Assign(e7, <<"network", "oidc", "client", "issuer", "url">>,
                   StrValue(network_oidc_client_issuer_url))

\* DocumentMut::to_string, reduced to the key/value content of the text: one
\* line `dotted.key = value` per value of the document (strings quoted,
\* integers and booleans bare).  Table headers, order and whitespace are not
\* modelled.
Quoted(s) == "\"" \o s \o "\""
RenderValue(item) ==
    CASE item.kind = "str" -> Quoted(item.s)
      [] item.kind = "int" -> ToString(item.i)
      [] item.kind = "bool" -> (IF item.b THEN "true" ELSE "false")
to_string(doc) ==
    { join(p, ".") \o " = " \o RenderValue(doc[p]) :
        p \in { q \in DOMAIN doc : doc[q].kind # "table" } }

\* prepare_cleo_configuration: the body applied to a new, empty document and
\* the document rendered to text.
prepare_cleo_configuration(setup_string, cleo_ca_path) ==
    LET st == merge(setup_string, cleo_ca_path, DocumentMut_new)
    IN  [panicked |-> st.panicked, message |-> st.message,
         text |-> IF st.panicked THEN {} ELSE to_string(st.doc)]

\* ------------------------------------------------------ SetupCli::execute
\* impl From<CleoSetupType> for SetupType
SetupTypeFrom(value) ==
    CASE value = "User" -> "User"
      [] value = "System" -> "System"

\* Mutation: the configuration written at the scope selected for the certificate.
ConfigSetupType_selected(persistence_type) == SetupTypeFrom(persistence_type)
\* The scope write_config is called with: SetupType::User.
ConfigSetupType(persistence_type) == "User"

\* Certificate::encode_as_string: the PEM text of the certificate.
encode_as_string(ca) == "-----BEGIN CERTIFICATE-----" \o ca \o "-----END CERTIFICATE-----"

EnvPrefix == "OPENDUT_CLEO_NETWORK_"

\* Mutation: the scopes of the setup string forwarded to the environment.
AuthEnvironment_scopes(auth_config) ==
    IF auth_config.tag = "Disabled"
    THEN << EnvPrefix \o "OIDC_ENABLED=false" >>
    ELSE << EnvPrefix \o "OIDC_ENABLED=true",
            EnvPrefix \o "OIDC_CLIENT_ISSUER_URL=" \o auth_config.issuer_url,
            EnvPrefix \o "OIDC_CLIENT_ID=" \o auth_config.client_id.value,
            EnvPrefix \o "OIDC_CLIENT_SECRET=" \o auth_config.client_secret.value,
            EnvPrefix \o "OIDC_CLIENT_SCOPES=" \o Quoted(join(ScopeValues(auth_config.scopes), ",")) >>
\* The lines pushed to environment_variables for the Disabled and the Enabled arm.
AuthEnvironment(auth_config) ==
    IF auth_config.tag = "Disabled"
    THEN << EnvPrefix \o "OIDC_ENABLED=false" >>
    ELSE << EnvPrefix \o "OIDC_ENABLED=true",
            EnvPrefix \o "OIDC_CLIENT_ISSUER_URL=" \o auth_config.issuer_url,
            EnvPrefix \o "OIDC_CLIENT_ID=" \o auth_config.client_id.value,
            EnvPrefix \o "OIDC_CLIENT_SECRET=" \o auth_config.client_secret.value,
            EnvPrefix \o "OIDC_CLIENT_SCOPES=" \o Quoted("") >>

environment(setup) ==
    IF CarlHost(setup).panicked
    THEN [panicked |-> TRUE, message |-> CarlHost(setup).message, lines |-> << >>]
    ELSE
    LET carl_host == CarlHost(setup).value
        carl_port == unwrap_or(setup.carl.port, DefaultPort)
        ca_content == encode_as_string(setup.ca)
    IN  [panicked |-> FALSE, message |-> "",
         lines |-> << EnvPrefix \o "TLS_DOMAIN_NAME_OVERRIDE=" \o carl_host,
                      EnvPrefix \o "TLS_CA_CONTENT=" \o Quoted(ca_content),
                      EnvPrefix \o "CARL_HOST=" \o carl_host,
                      EnvPrefix \o "CARL_PORT=" \o ToString(carl_port) >>
                   \o AuthEnvironment(setup.auth_config)]

\* ------------------------------------------------------------------- state
VARIABLES
    setup_string,           \* the decoded CleoSetup
    persistent,             \* Option<CleoSetupType> of the command line
    pc,                     \* position in SetupCli::execute
    cleo_certificate_path,  \* Option: the path try_write_certificate returned
    new_settings_string,    \* Option: the text prepare_cleo_configuration returned
    environment_variables,  \* the lines built in ephemeral mode
    writes,                 \* the external writes done so far, in order
    stdout,                 \* the blocks printed so far
    exit,                   \* how the run ended
    base_document,          \* the document handed to the body of the merge
    ca_path,                \* the certificate path handed to the merge
    merged                  \* the results of the successive merges

vars == << setup_string, persistent, pc, cleo_certificate_path, new_settings_string,
           environment_variables, writes, stdout, exit, base_document, ca_path, merged >>
runVars == << setup_string, persistent, pc, cleo_certificate_path, new_settings_string,
              environment_variables, writes, stdout, exit >>
mergeVars == << base_document, ca_path, merged >>

PersistenceOptions == { NoneOpt, Some("System"), Some("User") }

NotExited == [status |-> "running", diagnostic |-> ""]
ExitOk == [status |-> "ok", diagnostic |-> ""]
Fatal(diagnostic) == [status |-> "fatal", diagnostic |-> diagnostic]

Init ==
    /\ setup_string \in CleoSetups
    /\ persistent \in PersistenceOptions
    /\ pc = "start"
    /\ cleo_certificate_path = NoneOpt
    /\ new_settings_string = NoneOpt
    /\ environment_variables = << >>
    /\ writes = << >>
    /\ stdout = << >>
    /\ exit = NotExited
    /\ base_document = DocumentMut_new
    /\ ca_path = "/test/path/ca.pem"
    /\ merged = << >>

\* opendut_util::settings::try_write_certificate: the outcomes of the external
\* certificate writer.  It stores the certificate at the given scope and
\* returns the path of the file, or fails with a fatal error.
try_write_certificate(name, ca, scope) ==
    { [ok |-> TRUE, path |-> path, diagnostic |-> "",
       file |-> [op |-> "certificate", name |-> name, content |-> ca, scope |-> scope]] :
        path \in CaPaths }
    \cup
    { [ok |-> FALSE, path |-> "", diagnostic |-> "certificate could not be written",
       file |-> [op |-> "certificate", name |-> name, content |-> ca, scope |-> scope]] }

\* opendut_util::settings::write_config: the outcomes of the external
\* configuration writer.  It stores the text at the given scope, or fails with
\* a fatal error.
write_config(name, text, scope) ==
    { [ok |-> TRUE, diagnostic |-> "",
       file |-> [op |-> "config", name |-> name, content |-> text, scope |-> scope]],
      [ok |-> FALSE, diagnostic |-> "configuration could not be written",
       file |-> [op |-> "config", name |-> name, content |-> text, scope |-> scope]] }

\* let cleo_certificate_path = try_write_certificate("cleo", ca,
\*                                SetupType::from(persistence_type));
WriteCertificate ==
    /\ pc = "start"
    /\ persistent # NoneOpt
    /\ \E outcome \in try_write_certificate("cleo", setup_string.ca,
                                             SetupTypeFrom(persistent[1])) :
        IF outcome.ok
        THEN /\ writes' = Append(writes, outcome.file)
             /\ cleo_certificate_path' = Some(outcome.path)
             /\ pc' = "prepare"
             /\ exit' = exit
        ELSE /\ pc' = "exited"
             /\ exit' = Fatal(outcome.diagnostic)
             /\ UNCHANGED << writes, cleo_certificate_path >>
    /\ UNCHANGED << setup_string, persistent, new_settings_string, environment_variables, stdout >>
    /\ UNCHANGED mergeVars

PrepareCleoConfiguration ==
    /\ pc = "prepare"
    /\ LET result == prepare_cleo_configuration(setup_string, cleo_certificate_path[1])
       IN  IF result.panicked
           THEN /\ pc' = "exited"
                /\ exit' = Fatal(result.message)
                /\ UNCHANGED new_settings_string
           ELSE /\ new_settings_string' = Some(result.text)
                /\ pc' = "write_config"
                /\ exit' = exit
    /\ UNCHANGED << setup_string, persistent, cleo_certificate_path, environment_variables,
                    writes, stdout >>
    /\ UNCHANGED mergeVars

\* Mutation: the configuration written before prepare_cleo_configuration ran.
WriteConfig_early ==
    /\ pc = "prepare"
    /\ writes' = Append(writes, [op |-> "config", name |-> "cleo",
                                 content |-> to_string(DocumentMut_new),
                                 scope |-> ConfigSetupType(persistent[1])])
    /\ exit' = ExitOk
    /\ pc' = "exited"
    /\ UNCHANGED << setup_string, persistent, cleo_certificate_path, new_settings_string,
                    environment_variables, stdout >>
    /\ UNCHANGED mergeVars
\* write_config("cleo", &new_settings_string, SetupType::User); Ok(())
WriteConfig ==
    /\ pc = "write_config"
    /\ \E outcome \in write_config("cleo", new_settings_string[1],
                                    ConfigSetupType(persistent[1])) :
        IF outcome.ok
        THEN /\ writes' = Append(writes, outcome.file)
             /\ exit' = ExitOk
        ELSE /\ exit' = Fatal(outcome.diagnostic)
             /\ UNCHANGED writes
    /\ pc' = "exited"
    /\ UNCHANGED << setup_string, persistent, cleo_certificate_path, new_settings_string,
                    environment_variables, stdout >>
    /\ UNCHANGED mergeVars

\* The None arm up to the end of the match on auth_config.
BuildEnvironment ==
    /\ pc = "start"
    /\ persistent = NoneOpt
    /\ LET result == environment(setup_string)
       IN  IF result.panicked
           THEN /\ pc' = "exited"
                /\ exit' = Fatal(result.message)
                /\ UNCHANGED environment_variables
           ELSE /\ environment_variables' = result.lines
                /\ pc' = "print"
                /\ exit' = exit
    /\ UNCHANGED << setup_string, persistent, cleo_certificate_path, new_settings_string,
                    writes, stdout >>
    /\ UNCHANGED mergeVars

\* println!("{}", environment_variables); Ok(())
PrintEnvironment ==
    /\ pc = "print"
    /\ stdout' = Append(stdout, environment_variables)
    /\ pc' = "exited"
    /\ exit' = ExitOk
    /\ UNCHANGED << setup_string, persistent, cleo_certificate_path, new_settings_string,
                    environment_variables, writes >>
    /\ UNCHANGED mergeVars

Next ==
    \/ WriteCertificate
    \/ PrepareCleoConfiguration
    \/ WriteConfig
    \/ BuildEnvironment
    \/ PrintEnvironment

Spec == Init /\ [][Next]_vars

\* ------------------------------------------------- the merge on its own
\* Values a pre-populated document may hold at the keys around the ones the
\* merge sets; a base document is a consistent choice of at most MaxBaseKeys
\* of them, every group on the way being a table.
BaseLeaf ==
    (<<"logging", "level">> :> StrValue("debug")) @@
    (<<"network", "other">> :> StrValue("keep")) @@
    (<<"network", "carl">> :> StrValue("carl:1234")) @@
    (<<"network", "carl", "host">> :> StrValue("old")) @@
    (<<"network", "carl", "timeout">> :> IntValue(30)) @@
    (<<"network", "oidc", "enabled">> :> BoolValue(TRUE)) @@
    (<<"network", "oidc", "retry">> :> IntValue(3)) @@
    (<<"network", "oidc", "client", "audience">> :> StrValue("aud")) @@
    (<<"network", "tls", "ca">> :> StrValue("/old/ca.pem")) @@
    (<<"network", "tls", "verify">> :> BoolValue(TRUE))

Consistent(leaves) == \A p \in leaves, q \in leaves : ~IsStrictPrefix(p, q)

DocumentOf(leaves) ==
    LET groups == UNION { Prefixes(p) : p \in leaves }
    IN  [p \in leaves \cup groups |-> IF p \in leaves THEN BaseLeaf[p] ELSE table]

BaseDocuments ==
    { DocumentOf(leaves) :
        leaves \in { l \in SUBSET DOMAIN BaseLeaf : Cardinality(l) <= MaxBaseKeys /\ Consistent(l) } }

InitMerge ==
    /\ setup_string \in CleoSetups
    /\ base_document \in BaseDocuments
    /\ ca_path \in CaPaths
    /\ merged = << >>
    /\ persistent = NoneOpt
    /\ pc = "merge"
    /\ cleo_certificate_path = NoneOpt
    /\ new_settings_string = NoneOpt
    /\ environment_variables = << >>
    /\ writes = << >>
    /\ stdout = << >>
    /\ exit = NotExited

\* The body of prepare_cleo_configuration applied to the base document.
MergeOnce ==
    /\ pc = "merge"
    /\ merged = << >>
    /\ merged' = << merge(setup_string, ca_path, base_document) >>
    /\ UNCHANGED << base_document, ca_path >>
    /\ UNCHANGED runVars

\* The same body applied to the document the first application produced.
MergeAgain ==
    /\ pc = "merge"
    /\ Len(merged) = 1
    /\ ~merged[1].panicked
    /\ merged' = Append(merged, merge(setup_string, ca_path, merged[1].doc))
    /\ UNCHANGED << base_document, ca_path >>
    /\ UNCHANGED runVars

NextMerge ==
    \/ MergeOnce
    \/ MergeAgain

SpecMerge == InitMerge /\ [][NextMerge]_vars

\* ================================================================ claims
MergedOk == Len(merged) >= 1 /\ ~merged[1].panicked
IsEnabled == setup_string.auth_config.tag = "Enabled"
IsDisabled == setup_string.auth_config.tag = "Disabled"
HasHost == setup_string.carl.host_str # NoneOpt
BundleHost == setup_string.carl.host_str[1]
TlsGroup == <<"network", "tls">>

\* The keys the merge sets for a setup string.
KeysSet(setup) ==
    { <<"network", "carl", "host">>, <<"network", "carl", "port">>,
      <<"network", "oidc", "enabled">> } \cup
    (IF setup.auth_config.tag = "Enabled"
     THEN { <<"network", "tls", "ca">>,
            <<"network", "tls", "domain", "name", "override">>,
            <<"network", "oidc", "client", "id">>,
            <<"network", "oidc", "client", "secret">>,
            <<"network", "oidc", "client", "scopes">>,
            <<"network", "oidc", "client", "issuer", "url">> }
     ELSE {})

C2_DisabledDocument ==
    (MergedOk /\ IsDisabled) =>
        LET doc == merged[1].doc
        IN  /\ Get(doc, <<"network", "carl", "host">>) = Some(StrValue(BundleHost))
            /\ Get(doc, <<"network", "oidc", "enabled">>) = Some(BoolValue(FALSE))
            /\ \A p \in DOMAIN doc :
                 IsPrefix(TlsGroup, p) => (p \in DOMAIN base_document /\ doc[p] = base_document[p])
            /\ base_document = DocumentMut_new => ~(\E p \in DOMAIN doc : IsPrefix(TlsGroup, p))

C2_Witness ==
    /\ MergedOk /\ IsDisabled
    /\ base_document = DocumentMut_new
    /\ TlsGroup \notin DOMAIN merged[1].doc

\* C3: for an Enabled setup string the merged document has network.carl.host,
\* network.oidc.enabled = true, network.tls.ca = the certificate path,
\* network.tls.domain.name.override = the host, and the client id, secret
\* and issuer URL of the setup string.
C3_EnabledDocument ==
    (MergedOk /\ IsEnabled) =>
        LET doc == merged[1].doc
            auth == setup_string.auth_config
        IN  /\ Get(doc, <<"network", "carl", "host">>) = Some(StrValue(BundleHost))
            /\ Get(doc, <<"network", "oidc", "enabled">>) = Some(BoolValue(TRUE))
            /\ Get(doc, <<"network", "tls", "ca">>) = Some(StrValue(ca_path))
            /\ Get(doc, <<"network", "tls", "domain", "name", "override">>)
                 = Some(StrValue(BundleHost))
            /\ Get(doc, <<"network", "oidc", "client", "id">>)
                 = Some(StrValue(auth.client_id.value))
            /\ Get(doc, <<"network", "oidc", "client", "secret">>)
                 = Some(StrValue(auth.client_secret.value))
            /\ Get(doc, <<"network", "oidc", "client", "issuer", "url">>)
                 = Some(StrValue(auth.issuer_url))

C3_Witness ==
    /\ MergedOk /\ IsEnabled
    /\ <<"network", "oidc", "retry">> \in DOMAIN base_document
    /\ Get(merged[1].doc, <<"network", "tls", "ca">>) = Some(StrValue("/test/path/ca.pem"))

\* C4: merging a second time with the same setup string and path leaves the
\* merged document as it is: same keys, same values, same groups.
C4_Idempotent ==
    Len(merged) = 2 =>
        /\ ~merged[2].panicked
        /\ DOMAIN merged[2].doc = DOMAIN merged[1].doc
        /\ \A p \in DOMAIN merged[1].doc : merged[2].doc[p] = merged[1].doc[p]

C4_Witness ==
    /\ Len(merged) = 2
    /\ <<"network", "other">> \in DOMAIN base_document
    /\ <<"network", "other">> \in DOMAIN merged[2].doc
    /\ merged[1].doc # base_document

IsConfigWrite(w) == w.op = "config"
IsCertificateWrite(w) == w.op = "certificate"

\* C5 as stated: no external write, certificate write included, happens
\* before the merge has produced the document text.
C5_NoWriteBeforeMerge == writes # << >> => new_settings_string # NoneOpt

\* C5 amended: the certificate is written first and its path is handed to the
\* merge; the configuration is written only after the merge has produced the
\* document text and is exactly that text, so a failed merge leaves the
\* certificate written and no configuration written.
C5_ConfigWrittenAfterMerge ==
    /\ \A i \in DOMAIN writes :
         IsConfigWrite(writes[i]) =>
            /\ new_settings_string # NoneOpt
            /\ writes[i].content = new_settings_string[1]
            /\ i = 2
    /\ new_settings_string # NoneOpt =>
         /\ Len(writes) >= 1
         /\ IsCertificateWrite(writes[1])
         /\ new_settings_string[1]
              = prepare_cleo_configuration(setup_string, cleo_certificate_path[1]).text
    /\ (exit.status = "fatal" /\ new_settings_string = NoneOpt) =>
         ~(\E i \in DOMAIN writes : IsConfigWrite(writes[i]))

C5_Witness ==
    /\ Len(writes) = 2
    /\ IsCertificateWrite(writes[1])
    /\ IsConfigWrite(writes[2])
    /\ writes[2].content # {}

ExplicitPortOr443 ==
    IF setup_string.carl.port = NoneOpt THEN 443 ELSE setup_string.carl.port[1]

\* C6: the printed block is, in this order, TLS_DOMAIN_NAME_OVERRIDE = host,
\* TLS_CA_CONTENT = the quoted certificate text, CARL_HOST = host, CARL_PORT =
\* port and OIDC_ENABLED; 5 lines ending in OIDC_ENABLED=false when Disabled,
\* 9 lines when Enabled, with OIDC_CLIENT_SCOPES the empty quoted string
\* whatever scopes the setup string carries.  The block is a function of the
\* setup string alone and is printed at most once.
C6_EnvironmentBlock ==
    /\ Len(stdout) <= 1
    /\ stdout # << >> =>
        LET block == stdout[1]
            auth == setup_string.auth_config
        IN  /\ block[1] = "OPENDUT_CLEO_NETWORK_TLS_DOMAIN_NAME_OVERRIDE=" \o BundleHost
            /\ block[2] = "OPENDUT_CLEO_NETWORK_TLS_CA_CONTENT=\""
                            \o encode_as_string(setup_string.ca) \o "\""
            /\ block[3] = "OPENDUT_CLEO_NETWORK_CARL_HOST=" \o BundleHost
            /\ block[4] = "OPENDUT_CLEO_NETWORK_CARL_PORT=" \o ToString(ExplicitPortOr443)
            /\ IsDisabled =>
                 /\ Len(block) = 5
                 /\ block[5] = "OPENDUT_CLEO_NETWORK_OIDC_ENABLED=false"
            /\ IsEnabled =>
                 /\ Len(block) = 9
                 /\ block[5] = "OPENDUT_CLEO_NETWORK_OIDC_ENABLED=true"
                 /\ block[6] = "OPENDUT_CLEO_NETWORK_OIDC_CLIENT_ISSUER_URL=" \o auth.issuer_url
                 /\ block[7] = "OPENDUT_CLEO_NETWORK_OIDC_CLIENT_ID=" \o auth.client_id.value
                 /\ block[8] = "OPENDUT_CLEO_NETWORK_OIDC_CLIENT_SECRET="
                                 \o auth.client_secret.value
                 /\ block[9] = "OPENDUT_CLEO_NETWORK_OIDC_CLIENT_SCOPES=\"\""

C6_Witness ==
    /\ stdout # << >>
    /\ IsEnabled
    /\ setup_string.auth_config.scopes # << >>
    /\ Len(stdout[1]) = 9

\* C7: a setup string whose URL has no host produces no output: nothing is
\* printed, no configuration is written, and the run ends with a fatal error
\* that carries a diagnostic.
C7_NoHostNoOutput ==
    ~HasHost =>
        /\ stdout = << >>
        /\ environment_variables = << >>
        /\ new_settings_string = NoneOpt
        /\ ~(\E i \in DOMAIN writes : IsConfigWrite(writes[i]))
        /\ pc = "exited" => (exit.status = "fatal" /\ exit.diagnostic # "")

C7_Witness ==
    /\ ~HasHost
    /\ pc = "exited"
    /\ persistent # NoneOpt
    /\ exit = Fatal(HostExpectation)
    /\ Len(writes) = 1

\* C8: the certificate is written with the scope selected on the command
\* line, the configuration always with the User scope.
C8_WriteScopes ==
    \A i \in DOMAIN writes :
        /\ IsCertificateWrite(writes[i]) => writes[i].scope = persistent[1]
        /\ IsConfigWrite(writes[i]) => writes[i].scope = "User"

C8_Witness ==
    /\ persistent = Some("System")
    /\ Len(writes) = 2
    /\ writes[1].scope = "System"
    /\ writes[2].scope = "User"

\* C9: the port is the port of the URL when it has one and 443 otherwise, as
\* the integer network.carl.port of the document text and as CARL_PORT of the
\* printed block.
C9_RenderedPort ==
    /\ new_settings_string # NoneOpt =>
         /\ ("network.carl.port = " \o ToString(ExplicitPortOr443)) \in new_settings_string[1]
         /\ ("network.carl.port = \"" \o ToString(ExplicitPortOr443) \o "\"")
               \notin new_settings_string[1]
         /\ setup_string.carl.port = NoneOpt =>
               "network.carl.port = 443" \in new_settings_string[1]
    /\ stdout # << >> =>
         /\ stdout[1][4] = "OPENDUT_CLEO_NETWORK_CARL_PORT=" \o ToString(ExplicitPortOr443)
         /\ setup_string.carl.port = NoneOpt =>
               stdout[1][4] = "OPENDUT_CLEO_NETWORK_CARL_PORT=443"

C9_Witness ==
    /\ setup_string.carl.port = NoneOpt
    /\ new_settings_string # NoneOpt
    /\ "network.carl.port = 443" \in new_settings_string[1]

\* The scope names separated by commas, built from the left.
RECURSIVE CommaSeparated(_)
CommaSeparated(names) ==
    IF Len(names) = 0 THEN ""
    ELSE IF Len(names) = 1 THEN names[1]
    ELSE CommaSeparated(SubSeq(names, 1, Len(names) - 1)) \o "," \o names[Len(names)]

\* C10: for an Enabled setup string network.oidc.client.scopes is the scope
\* names joined by ',' in input order without leading or trailing separator:
\* the empty string for no scope, "a,b" for the scopes a and b.
C10_ScopesJoined ==
    (MergedOk /\ IsEnabled) =>
        LET names == ScopeValues(setup_string.auth_config.scopes)
            scopes == Get(merged[1].doc, <<"network", "oidc", "client", "scopes">>)
        IN  /\ scopes = Some(StrValue(CommaSeparated(names)))
            /\ names = << >> => scopes = Some(StrValue(""))
            /\ names = << "a", "b" >> => scopes = Some(StrValue("a,b"))
            /\ names = << "b", "a" >> => scopes = Some(StrValue("b,a"))

C10_Witness ==
    /\ MergedOk /\ IsEnabled
    /\ ScopeValues(setup_string.auth_config.scopes) = << "a", "b" >>
    /\ merged[1].doc[<<"network", "oidc", "client", "scopes">>] = StrValue("a,b")

====
